---- MODULE Spec2Model ----
(***************************************************************************)
(* Model of parser_server.py: the quantity/name normaliser, the            *)
(* duplicate merge of parse_ingredients and the /parse route.              *)
(*                                                                         *)
(* Python strings are sequences of one-character strings, so that          *)
(* str.strip, str.lower, the "in" substring test and the two regular       *)
(* expressions are computed character by character.  Python's None is the  *)
(* one-element sequence NoneV, which no text can equal.                    *)
(***************************************************************************)
EXTENDS Integers, Sequences, FiniteSets, TLC

VARIABLES
    \* ---- _normalize_quantity_and_name called on its own ----
    name,          \* argument name
    qty_text,      \* argument qty_text (a text or NoneV)
    normalized,    \* the returned pair, NoResult before the call returns
    \* ---- the server process ----
    GLiNER2,       \* module global: TRUE when the import at lines 27-30 succeeded
    PIONEER_API_KEY, \* environment: TRUE when the variable is set and non-empty
    pc,            \* position of the request being handled
    payload,       \* request.get_json(silent=True)
    extractor,     \* local of parse_route: "none", "api" or "local"
    results,       \* local of parse_ingredients: out.get("ingredients", [])
    idx,           \* loop position in results, then in parsed
    parsed,        \* local of parse_ingredients
    merged,        \* local of parse_ingredients: dict in insertion order
    response,      \* what parse_route returned
    calls          \* what this request invoked and what raised

vars == <<name, qty_text, normalized, GLiNER2, PIONEER_API_KEY, pc, payload,
          extractor, results, idx, parsed, merged, response, calls>>

normVars == <<name, qty_text, normalized>>
serverVars == <<GLiNER2, PIONEER_API_KEY, pc, payload, extractor, results, idx,
                parsed, merged, response, calls>>

----------------------------------------------------------------------------
\* Bounds of the model.

\* longest quantity text, in tokens, handed to the normaliser
MaxTokens == 3
\* longest list of raw items the extractor returns
MaxItems == 3

----------------------------------------------------------------------------
\* Python values.

NoneV == << "<None>" >>

Truthy(s) == s # NoneV /\ s # << >>

\* (x or "")
OrEmpty(s) == IF Truthy(s) THEN s ELSE << >>

UpperChars == <<"A","B","C","D","E","F","G","H","I","J","K","L","M",
                "N","O","P","Q","R","S","T","U","V","W","X","Y","Z">>
LowerChars == <<"a","b","c","d","e","f","g","h","i","j","k","l","m",
                "n","o","p","q","r","s","t","u","v","w","x","y","z">>

IsUpperChar(c) == \E i \in 1..26 : UpperChars[i] = c
IsLowerChar(c) == \E i \in 1..26 : LowerChars[i] = c

\* one character of str.lower()
LowerChar(c) ==
    IF IsUpperChar(c)
    THEN LowerChars[CHOOSE i \in 1..26 : UpperChars[i] = c]
    ELSE c

\* str.lower()
Lower(s) == [i \in 1..Len(s) |-> LowerChar(s[i])]

\* \s of the re module, and the characters str.strip() removes
IsSpace(c) == c \in {" ", "\t", "\n", "\r"}

\* [a-zA-Z\-]
IsWordChar(c) == IsLowerChar(c) \/ IsUpperChar(c) \/ c = "-"

\* . of the re module (no DOTALL)
IsDotChar(c) == c # "\n"

\* first position >= i of s holding a character outside \s, Len(s)+1 if none
RECURSIVE SkipSpace(_, _)
SkipSpace(s, i) ==
    IF i <= Len(s) /\ IsSpace(s[i]) THEN SkipSpace(s, i + 1) ELSE i

\* last position of the run of [a-zA-Z\-] starting at i (i - 1 if none)
RECURSIVE WordEnd(_, _)
WordEnd(s, i) ==
    IF i <= Len(s) /\ IsWordChar(s[i]) THEN WordEnd(s, i + 1) ELSE i - 1

\* last position <= i of s holding a character outside \s, 0 if none
RECURSIVE SkipSpaceBack(_, _)
SkipSpaceBack(s, i) ==
    IF i >= 1 /\ IsSpace(s[i]) THEN SkipSpaceBack(s, i - 1) ELSE i

\* str.strip()
Strip(s) ==
    LET a == SkipSpace(s, 1)
        b == SkipSpaceBack(s, Len(s))
    IN  IF a > b THEN << >> ELSE SubSeq(s, a, b)

\* s[i-1:].startswith(w)
StartsWithAt(s, i, w) ==
    /\ i >= 1
    /\ i + Len(w) - 1 <= Len(s)
    /\ SubSeq(s, i, i + Len(w) - 1) = w

\* (w in s)
Contains(s, w) == \E i \in 1..(Len(s) + 1) : StartsWithAt(s, i, w)

----------------------------------------------------------------------------
\* The words the normaliser looks for, and its outputs.

W_a == <<"a">>
W_an == <<"a","n">>
W_the == <<"t","h","e">>
W_half == <<"h","a","l","f">>
W_quarter == <<"q","u","a","r","t","e","r">>
W_toast == <<"t","o","a","s","t">>
W_one == <<"1">>
Frac_half == <<"1","/","2">>
Frac_quarter == <<"1","/","4">>
SP == <<" ">>

NoMatch == [matched |-> FALSE, group |-> NoneV]

\* re.match(r"^(?:a|an)(?:\s+(.*))?$", lqty) with the article `art` taken:
\* \s+ is greedy and (.*) stops at a line break, so the match succeeds with
\* the longest blank run skipped or, the group left out, at the end of the text
\* ($ also matches before one final line break).
MatchArticle(lqty, art) ==
    LET n == Len(art)
        q == SkipSpace(lqty, n + 1)
        rest == SubSeq(lqty, q, Len(lqty))
        body == IF rest # << >> /\ rest[Len(rest)] = "\n"
                THEN SubSeq(rest, 1, Len(rest) - 1) ELSE rest
        AtEnd(k) == k = Len(lqty) + 1 \/ (k = Len(lqty) /\ lqty[k] = "\n")
    IN  IF ~StartsWithAt(lqty, 1, art) THEN NoMatch
        ELSE IF AtEnd(n + 1) THEN [matched |-> TRUE, group |-> NoneV]
        ELSE IF q > n + 1 /\ \A i \in 1..Len(body) : IsDotChar(body[i])
             THEN [matched |-> TRUE, group |-> body]
        ELSE NoMatch

\* m_a = re.match(r"^(?:a|an)(?:\s+(.*))?$", lqty): "a" is tried before "an"
ReMatchArticle(lqty) ==
    IF MatchArticle(lqty, W_a).matched THEN MatchArticle(lqty, W_a)
    ELSE MatchArticle(lqty, W_an)

\* (?:an|a|the)?\s*([a-zA-Z\-]+) at position p with the article `art` taken
\* (<< >> for the article left out)
ArticleThenWord(l, p, art) ==
    LET q == SkipSpace(l, p + Len(art))
    IN  IF StartsWithAt(l, p, art) /\ q <= Len(l) /\ IsWordChar(l[q])
        THEN [matched |-> TRUE, group |-> SubSeq(l, q, WordEnd(l, q))]
        ELSE NoMatch

\* the pattern (?:half|quarter)\s+(?:an|a|the)?\s*([a-zA-Z\-]+) anchored at i:
\* the alternatives of the optional article are tried in the order an, a, the,
\* then the article is left out
MatchFractionAt(l, i) ==
    LET k == IF StartsWithAt(l, i, W_half) THEN i + Len(W_half)
             ELSE IF StartsWithAt(l, i, W_quarter) THEN i + Len(W_quarter)
             ELSE 0
        p == SkipSpace(l, k)
    IN  IF k = 0 \/ p = k THEN NoMatch
        ELSE IF ArticleThenWord(l, p, W_an).matched THEN ArticleThenWord(l, p, W_an)
        ELSE IF ArticleThenWord(l, p, W_a).matched THEN ArticleThenWord(l, p, W_a)
        ELSE IF ArticleThenWord(l, p, W_the).matched THEN ArticleThenWord(l, p, W_the)
        ELSE ArticleThenWord(l, p, << >>)

\* m = re.search(r"(?:half|quarter)\s+(?:an|a|the)?\s*([a-zA-Z\-]+)", lqty):
\* the leftmost position where the pattern matches
ReSearchFraction(l) ==
    LET hits == {i \in 1..Len(l) : MatchFractionAt(l, i).matched}
    IN  IF hits = {} THEN NoMatch
        ELSE MatchFractionAt(l, CHOOSE i \in hits : \A j \in hits : i <= j)

\* FracOf with the two tests in the other order
FracOf_QuarterFirst(lqty) ==
    IF Contains(lqty, W_quarter) THEN Frac_quarter ELSE Frac_half

\* lines 64-67: "half" is tested first
FracOf(lqty) == IF Contains(lqty, W_half) THEN Frac_half ELSE Frac_quarter

\* RenameCond without the test for 'toast'
RenameCond_AnySubstring(nm, referred) == Contains(Lower(nm), referred)

\* RenameCond without the substring test
RenameCond_ToastOnly(nm, referred) == Contains(Lower(nm), W_toast)

\* line 71: the condition under which the name is replaced
RenameCond(nm, referred) ==
    Contains(Lower(nm), W_toast) /\ Contains(Lower(nm), referred)

\* lines 55-60: the quantity text after the 'a'/'an' rule
ArticleRule(qty) ==
    LET m_a == ReMatchArticle(Lower(qty))
    IN  IF m_a.matched
        THEN W_one \o (IF Truthy(m_a.group) THEN SP \o m_a.group ELSE << >>)
        ELSE qty

\* lines 62-77: name and quantity text after the fraction rule
FractionRule(nm, qty) ==
    LET lqty == Lower(qty)
        frac == FracOf(lqty)
        m == ReSearchFraction(lqty)
    IN  IF Contains(lqty, W_half) \/ Contains(lqty, W_quarter)
        THEN IF m.matched
             THEN IF RenameCond(nm, m.group)
                  THEN [name |-> m.group, quantity |-> frac]
                  ELSE [name |-> nm, quantity |-> frac \o SP \o m.group]
             ELSE [name |-> nm, quantity |-> frac]
        ELSE [name |-> nm, quantity |-> qty]

\* _normalize_quantity_and_name(name, qty_text)
normalize_quantity_and_name(nm, qty) ==
    LET q0 == Strip(OrEmpty(qty))
        r == FractionRule(nm, ArticleRule(q0))
    IN  [name |-> Strip(r.name), quantity |-> Strip(r.quantity)]

----------------------------------------------------------------------------
\* The normaliser called on its own: the arguments are drawn from the texts
\* below, the call is one step.

NoResult == [name |-> NoneV, quantity |-> NoneV]

W_slice == <<"s","l","i","c","e">>
W_avocado == <<"a","v","o","c","a","d","o">>
W_apple == <<"a","p","p","l","e">>
W_onion == <<"o","n","i","o","n">>
W_of == <<"o","f">>

\* the pieces quantity texts are built from
Tokens == {W_a, W_an, W_the, W_half, W_quarter, SP, W_slice, W_toast,
           <<"S">>, <<"2">>}

\* every concatenation of at most n tokens
RECURSIVE TokenTexts(_)
TokenTexts(n) ==
    IF n = 0 THEN {<< >>}
    ELSE LET shorter == TokenTexts(n - 1)
         IN  shorter \cup {s \o t : s \in shorter, t \in Tokens}

\* the quantity texts of the documented examples
T_a_slice == W_a \o SP \o W_slice
T_an_apple == W_an \o SP \o W_apple
T_a_Slice == W_a \o SP \o <<"S">> \o <<"l","i","c","e">>
T_a_big_slice == W_a \o SP \o <<"b","i","g","\n">> \o W_slice
T_half_an_avocado == W_half \o SP \o W_an \o SP \o W_avocado
T_half_a_slice_of_toast ==
    W_half \o SP \o W_a \o SP \o W_slice \o SP \o W_of \o SP \o W_toast
T_half_apple == W_half \o SP \o W_apple
T_quarter_the_onion == W_quarter \o SP \o W_the \o SP \o W_onion

ExampleTexts == {NoneV, W_apple, T_a_slice, T_an_apple, T_a_Slice, T_a_big_slice,
                 T_half_an_avocado, T_half_a_slice_of_toast, T_half_apple,
                 T_quarter_the_onion}

QtyTexts == ExampleTexts \cup TokenTexts(MaxTokens)

N_Slice_of_Toast ==
    <<"S","l","i","c","e">> \o SP \o W_of \o SP \o <<"T">> \o <<"o","a","s","t">> \o SP

Names == {W_avocado, W_toast, W_apple, N_Slice_of_Toast}

ServerIdle ==
    /\ GLiNER2 = TRUE
    /\ PIONEER_API_KEY = FALSE
    /\ pc = "idle"
    /\ payload = [kind |-> "none", empty |-> TRUE, hasText |-> FALSE]
    /\ extractor = "none"
    /\ results = << >>
    /\ idx = 0
    /\ parsed = << >>
    /\ merged = << >>
    /\ response = [status |-> 0, kind |-> "none", error |-> "none", ingredients |-> << >>]
    /\ calls = [load |-> 0, extract |-> 0, raised |-> "none"]

InitNormalize ==
    /\ name \in Names
    /\ qty_text \in QtyTexts
    /\ normalized = NoResult
    /\ ServerIdle

\* name, qty = _normalize_quantity_and_name(name, qty)
NormalizeCall ==
    /\ normalized = NoResult
    /\ normalized' = normalize_quantity_and_name(name, qty_text)
    /\ UNCHANGED <<name, qty_text>>
    /\ UNCHANGED serverVars

NextNormalize == NormalizeCall

SpecNormalize == InitNormalize /\ [][NextNormalize]_vars

----------------------------------------------------------------------------
\* The server: one request at a time goes through parse_route, which calls
\* load_extractor and parse_ingredients.

\* the JSON values request.get_json(silent=True) can return; "invalid" is a
\* body that is no JSON (None).  hasText: the key "text" of an object, the
\* element "text" of an array, the substring "text" of a string.
Payloads ==
    {[kind |-> "invalid", empty |-> TRUE, hasText |-> FALSE],
     [kind |-> "null", empty |-> TRUE, hasText |-> FALSE]}
    \cup {[kind |-> k, empty |-> TRUE, hasText |-> FALSE] :
            k \in {"object", "array", "string", "number", "bool"}}
    \cup {[kind |-> k, empty |-> FALSE, hasText |-> h] :
            k \in {"object", "array", "string"}, h \in BOOLEAN}
    \cup {[kind |-> k, empty |-> FALSE, hasText |-> FALSE] : k \in {"number", "bool"}}

\* (not payload)
Falsy(p) == p.kind \in {"invalid", "null"} \/ p.empty

\* ("text" not in payload) raises TypeError on a number or a boolean
InRaises(p) == p.kind \in {"number", "bool"}

\* payload["text"] raises TypeError on an array or a string
IndexRaises(p) == p.kind \in {"array", "string"}

\* MissingText without the test for the key
MissingText_OnlyEmpty(p) == Falsy(p)

\* line 138: not payload or "text" not in payload
MissingText(p) == Falsy(p) \/ (~InRaises(p) /\ ~p.hasText)

NoResponse == [status |-> 0, kind |-> "none", error |-> "none", ingredients |-> << >>]
NoCalls == [load |-> 0, extract |-> 0, raised |-> "none"]
NoPayload == [kind |-> "none", empty |-> TRUE, hasText |-> FALSE]

\* jsonify({"error": msg}), code
ErrorResponse(code, msg) ==
    [status |-> code, kind |-> "error", error |-> msg, ingredients |-> << >>]

\* jsonify({"ingredients": ingredients}) with Flask's default status
OkResponse(ingredients) ==
    [status |-> 200, kind |-> "ingredients", error |-> "none", ingredients |-> ingredients]

\* an exception that leaves parse_route: Flask answers for it
UnhandledResponse ==
    [status |-> 500, kind |-> "exception", error |-> "none", ingredients |-> << >>]

\* ParseFailed without the try/except of lines 151-154
ParseFailed_Uncaught == UnhandledResponse

\* lines 153-154: jsonify({"error": f"parse failed: {e}"}), 500
ParseFailed == ErrorResponse(500, "parse failed")

\* lines 147-149: jsonify({"error": str(e)}), 500
LoadFailed == ErrorResponse(500, "load_extractor")

\* One field of a raw item: absent, a string, a dict holding "text" (or not: NoneV),
\* or a truthy value of another type (a number), on which .strip() raises.
Absent == [kind |-> "absent", text |-> NoneV]
Str(s) == [kind |-> "str", text |-> s]
Dict(s) == [kind |-> "dict", text |-> s]
Other == [kind |-> "other", text |-> NoneV]

W_tomato == <<"t","o","m","a","t","o">>
N_Tomato == <<"T">> \o <<"o","m","a","t","o">>
T_2_slices == <<"2">> \o SP \o W_slice \o <<"s">>
T_half_a_slice == W_half \o SP \o W_a \o SP \o W_slice

\* the raw items the extractor's answer is built from
RawItems ==
    {[name |-> Str(N_Tomato), quantity |-> Str(<< >>)],
     [name |-> Str(W_tomato), quantity |-> Str(T_2_slices)],
     [name |-> Str(W_tomato \o SP), quantity |-> Absent],
     [name |-> Dict(W_tomato), quantity |-> Dict(T_a_slice)],
     [name |-> Absent, quantity |-> Str(T_2_slices)],
     [name |-> Dict(NoneV), quantity |-> Other],
     [name |-> Str(<< >>), quantity |-> Str(T_a_slice)],
     [name |-> Str(SP), quantity |-> Str(T_2_slices)],
     [name |-> Str(N_Slice_of_Toast), quantity |-> Str(T_half_a_slice)],
     [name |-> Str(W_toast), quantity |-> Other]}

\* every list of at most n raw items
RECURSIVE ItemLists(_)
ItemLists(n) ==
    IF n = 0 THEN {<< >>}
    ELSE LET shorter == ItemLists(n - 1)
         IN  shorter \cup {Append(l, it) : l \in shorter, it \in RawItems}

\* lines 104-109: item.get(field), then .get("text") of a dict
FieldValue(f) == f.text

\* lines 110-113: what raises while one item is processed: name.strip() on a
\* name that is no string, (qty or "").strip() on a quantity that is no string
ItemRaises(item) ==
    \/ item.name.kind = "other"
    \/ Truthy(FieldValue(item.name)) /\ item.quantity.kind = "other"

\* lines 112-114: the pair appended to parsed
ParsedPair(item) ==
    normalize_quantity_and_name(Strip(FieldValue(item.name)), FieldValue(item.quantity))

\* line 119
KeyOf(p) == Lower(Strip(p.name))

KeyIndex(m, key) ==
    IF \E i \in 1..Len(m) : m[i].key = key
    THEN CHOOSE i \in 1..Len(m) : m[i].key = key
    ELSE 0

\* PreferNew without the test of the stored entry
PreferNew_LastWins(stored, p) == Truthy(p.quantity)

\* line 124: (not merged[key].get("quantity")) and p.get("quantity")
PreferNew(stored, p) == ~Truthy(stored.quantity) /\ Truthy(p.quantity)

\* MergeStep with a replaced entry moved to the end
MergeStep_MovesKey(m, p) ==
    LET key == KeyOf(p)
        i == KeyIndex(m, key)
    IN  IF i = 0 THEN Append(m, [key |-> key, value |-> p])
        ELSE IF ~Truthy(m[i].value.quantity) /\ Truthy(p.quantity)
        THEN Append(SubSeq(m, 1, i - 1) \o SubSeq(m, i + 1, Len(m)),
                    [key |-> key, value |-> p])
        ELSE m

\* lines 119-125: one iteration of the merge loop.  merged is a dict: a new key
\* goes last, a replaced value keeps its place.
MergeStep(m, p) ==
    LET key == KeyOf(p)
        i == KeyIndex(m, key)
    IN  IF i = 0 THEN Append(m, [key |-> key, value |-> p])
        ELSE IF PreferNew(m[i].value, p) THEN [m EXCEPT ![i].value = p]
        ELSE m

\* line 127: list(merged.values())
Values(m) == [i \in 1..Len(m) |-> m[i].value]

serverConfig == <<GLiNER2, PIONEER_API_KEY>>
requestVars == <<payload, extractor, results, idx, parsed, merged>>

NormIdle ==
    /\ name = << >>
    /\ qty_text = NoneV
    /\ normalized = NoResult

Init ==
    /\ NormIdle
    /\ GLiNER2 \in BOOLEAN
    /\ PIONEER_API_KEY \in BOOLEAN
    /\ pc = "idle"
    /\ payload = NoPayload
    /\ extractor = "none"
    /\ results = << >>
    /\ idx = 0
    /\ parsed = << >>
    /\ merged = << >>
    /\ response = NoResponse
    /\ calls = NoCalls

\* line 137: payload = request.get_json(silent=True)
ParseRoute_GetJson ==
    /\ pc = "idle"
    /\ \E p \in Payloads : payload' = p
    /\ pc' = "check"
    /\ UNCHANGED <<extractor, results, idx, parsed, merged, response, calls>>
    /\ UNCHANGED serverConfig
    /\ UNCHANGED normVars

\* lines 138-141
ParseRoute_Check ==
    /\ pc = "check"
    /\ IF MissingText(payload)
       THEN /\ response' = ErrorResponse(400, "missing 'text' in JSON body")
            /\ pc' = "responded"
       ELSE IF InRaises(payload) \/ IndexRaises(payload)
       THEN /\ response' = UnhandledResponse
            /\ pc' = "escaped"
       ELSE /\ response' = response
            /\ pc' = "load"
    /\ UNCHANGED <<calls, requestVars, serverConfig, normVars>>

\* load_extractor, lines 40-47: raises when the library is missing; from_api
\* and from_pretrained are the library's and may raise as well
LoadExtractorRaises(failed) == GLiNER2 = FALSE \/ failed

\* lines 142-149
ParseRoute_Load ==
    /\ pc = "load"
    /\ \E failed \in BOOLEAN :
         IF LoadExtractorRaises(failed)
         THEN /\ response' = LoadFailed
              /\ pc' = "responded"
              /\ extractor' = extractor
              /\ calls' = [calls EXCEPT !.load = @ + 1, !.raised = "load"]
         ELSE /\ extractor' = IF PIONEER_API_KEY THEN "api" ELSE "local"
              /\ pc' = "extract"
              /\ response' = response
              /\ calls' = [calls EXCEPT !.load = @ + 1]
    /\ UNCHANGED <<payload, results, idx, parsed, merged, serverConfig, normVars>>

\* the ways extractor.extract_json(text, schema) and out.get can end
ExtractOutcomes == {"raises", "no dict", "no key", "list"}

\* lines 100-102 (the caller passes the extractor, so lines 88-91 are skipped);
\* an exception is caught at lines 153-154
ParseIngredients_Extract ==
    /\ pc = "extract"
    /\ \E how \in ExtractOutcomes, items \in ItemLists(MaxItems) :
         /\ how # "list" => items = << >>
         /\ IF how \in {"raises", "no dict"}
            THEN /\ response' = ParseFailed
                 /\ pc' = "responded"
                 /\ calls' = [calls EXCEPT !.extract = @ + 1, !.raised = "parse"]
                 /\ UNCHANGED <<results, idx>>
            ELSE /\ results' = items
                 /\ idx' = 1
                 /\ pc' = "parse"
                 /\ response' = response
                 /\ calls' = [calls EXCEPT !.extract = @ + 1]
    /\ UNCHANGED <<payload, extractor, parsed, merged, serverConfig, normVars>>

\* lines 103-114: one iteration of the loop over results
ParseIngredients_Item ==
    /\ pc = "parse"
    /\ idx <= Len(results)
    /\ LET item == results[idx]
       IN  IF ItemRaises(item)
           THEN /\ response' = ParseFailed
                /\ pc' = "responded"
                /\ calls' = [calls EXCEPT !.raised = "parse"]
                /\ UNCHANGED <<idx, parsed>>
           ELSE /\ parsed' = IF Truthy(FieldValue(item.name))
                             THEN Append(parsed, ParsedPair(item))
                             ELSE parsed
                /\ idx' = idx + 1
                /\ UNCHANGED <<pc, response, calls>>
    /\ UNCHANGED <<payload, extractor, results, merged, serverConfig, normVars>>

\* line 117: merged = {}
ParseIngredients_StartMerge ==
    /\ pc = "parse"
    /\ idx > Len(results)
    /\ merged' = << >>
    /\ idx' = 1
    /\ pc' = "merge"
    /\ UNCHANGED <<payload, extractor, results, parsed, response, calls,
                   serverConfig, normVars>>

\* lines 118-125: one iteration of the loop over parsed
ParseIngredients_Merge ==
    /\ pc = "merge"
    /\ idx <= Len(parsed)
    /\ merged' = MergeStep(merged, parsed[idx])
    /\ idx' = idx + 1
    /\ UNCHANGED <<pc, payload, extractor, results, parsed, response, calls,
                   serverConfig, normVars>>

\* lines 127 and 156
ParseRoute_Respond ==
    /\ pc = "merge"
    /\ idx > Len(parsed)
    /\ response' = OkResponse(Values(merged))
    /\ pc' = "responded"
    /\ UNCHANGED <<calls, requestVars, serverConfig, normVars>>

\* the response is sent and the request's locals are gone
RequestDone ==
    /\ pc \in {"responded", "escaped"}
    /\ pc' = "idle"
    /\ payload' = NoPayload
    /\ extractor' = "none"
    /\ results' = << >>
    /\ idx' = 0
    /\ parsed' = << >>
    /\ merged' = << >>
    /\ response' = NoResponse
    /\ calls' = NoCalls
    /\ UNCHANGED <<serverConfig, normVars>>

Next ==
    \/ ParseRoute_GetJson
    \/ ParseRoute_Check
    \/ ParseRoute_Load
    \/ ParseIngredients_Extract
    \/ ParseIngredients_Item
    \/ ParseIngredients_StartMerge
    \/ ParseIngredients_Merge
    \/ ParseRoute_Respond
    \/ RequestDone

Spec == Init /\ [][Next]_vars

----------------------------------------------------------------------------
\* Properties of the merge step (specification Spec).

\* how many pairs of parsed the merge loop has folded into merged
Folded ==
    IF pc = "merge" THEN idx - 1
    ELSE IF pc = "responded" /\ response.kind = "ingredients" THEN Len(parsed)
    ELSE 0

\* the positions among the first n pairs that hold the key
PositionsOf(key, n) == {i \in 1..n : KeyOf(parsed[i]) = key}

Least(S) == CHOOSE i \in S : \A j \in S : i <= j

\* the pair the merge rule selects for a key among the first n pairs
Selected(key, n) ==
    LET first == Least(PositionsOf(key, n))
        later == {j \in PositionsOf(key, n) : j > first /\ Truthy(parsed[j].quantity)}
    IN  IF ~Truthy(parsed[first].quantity) /\ later # {}
        THEN parsed[Least(later)]
        ELSE parsed[first]

\* C1: after every iteration of the merge loop, and in the list returned, the
\* entry of each key is the first pair with that key, unless that pair has an
\* empty quantity and a later pair with the key has a non-empty one: then it is
\* the earliest such later pair.  Holding after every iteration, it says that an
\* entry stored with a non-empty quantity is never replaced.
C1_MergeKeepsFirstOrFirstWithQuantity ==
    /\ \A i \in 1..Folded :
          \E k \in 1..Len(merged) :
             /\ merged[k].key = KeyOf(parsed[i])
             /\ merged[k].value = Selected(KeyOf(parsed[i]), Folded)
    /\ \A k \in 1..Len(merged) : Folded > 0 => PositionsOf(merged[k].key, Folded) # {}
    /\ (pc = "responded" /\ response.kind = "ingredients")
          => response.ingredients = [k \in 1..Len(merged) |-> merged[k].value]

\* the documented example: 'Tomato'/'' then 'tomato'/'2 slices' gives one entry
C1_Witness ==
    /\ pc = "responded"
    /\ parsed = << [name |-> N_Tomato, quantity |-> << >>],
                   [name |-> W_tomato, quantity |-> T_2_slices] >>
    /\ response.ingredients = << [name |-> W_tomato, quantity |-> T_2_slices] >>

\* the positions among the first n pairs where a key occurs for the first time
FirstSeen(n) == {i \in 1..n : \A j \in 1..(i - 1) : KeyOf(parsed[j]) # KeyOf(parsed[i])}

\* C2: the keys of merged, and of the list returned, are the distinct keys of
\* the pairs folded so far, each once, in the order of their first occurrence;
\* a replacement does not move a key.
C2_OrderOfFirstOccurrence ==
    LET firsts == FirstSeen(Folded)
        out == IF pc = "responded" /\ response.kind = "ingredients"
               THEN response.ingredients
               ELSE [k \in 1..Len(merged) |-> merged[k].value]
    IN  Folded > 0 =>
          /\ Len(out) = Cardinality(firsts)
          /\ \A i \in firsts :
                KeyOf(out[Cardinality({j \in firsts : j <= i})]) = KeyOf(parsed[i])

\* a key whose entry was replaced by a later pair stays ahead of a key seen after it
C2_Witness ==
    /\ pc = "responded"
    /\ parsed = << [name |-> N_Tomato, quantity |-> << >>],
                   [name |-> W_slice, quantity |-> Frac_half],
                   [name |-> W_tomato, quantity |-> T_2_slices] >>
    /\ response.ingredients = << [name |-> W_tomato, quantity |-> T_2_slices],
                                 [name |-> W_slice, quantity |-> Frac_half] >>

\* C10, as claimed: every entry returned has a non-empty name and a string quantity.
C10_EntriesHaveNames ==
    response.kind = "ingredients" =>
        \A i \in 1..Len(response.ingredients) :
            /\ Truthy(response.ingredients[i].name)
            /\ response.ingredients[i].quantity # NoneV

----------------------------------------------------------------------------
\* Properties of parse_route (specification Spec).

\* a body that is no JSON, an empty JSON value, or an object without "text"
LacksText(p) ==
    \/ p.kind \in {"invalid", "null"}
    \/ p.empty
    \/ p.kind = "object" /\ ~p.hasText

\* C7: a request whose body is no JSON, is an empty JSON value or is an object
\* without "text" is answered 400 with the error "missing 'text' in JSON body",
\* and neither load_extractor nor extract_json is called for it.
C7_MissingTextIs400 ==
    (pc \notin {"idle", "check"} /\ LacksText(payload)) =>
        /\ pc = "responded"
        /\ response = ErrorResponse(400, "missing 'text' in JSON body")
        /\ calls.load = 0
        /\ calls.extract = 0

C7_Witness ==
    /\ pc = "responded"
    /\ payload = [kind |-> "object", empty |-> FALSE, hasText |-> FALSE]
    /\ response.status = 400

HasTextField(p) == p.kind = "object" /\ ~p.empty /\ p.hasText

\* the three answers to a request that carries "text"
C8_Outcome ==
    HasTextField(payload) =>
        /\ pc # "escaped"
        /\ pc = "responded" =>
             \/ /\ calls.raised = "load"
                /\ response.status = 500 /\ response.kind = "error"
                /\ calls.extract = 0
             \/ /\ calls.raised = "parse"
                /\ response.status = 500 /\ response.kind = "error"
                /\ calls.load = 1
             \/ /\ calls.raised = "none"
                /\ response.status = 200 /\ response.kind = "ingredients"
                /\ calls.load = 1 /\ calls.extract = 1
        /\ calls.raised = "load" => (pc = "responded" /\ calls.extract = 0)
        /\ calls.raised = "parse" => pc = "responded"

\* what a finished request leaves behind
C8_NothingLeft ==
    /\ UNCHANGED serverConfig
    /\ pc' = "idle" =>
         /\ requestVars' = <<NoPayload, "none", << >>, 0, << >>, << >>>>
         /\ response' = NoResponse
         /\ calls' = NoCalls

----------------------------------------------------------------------------
\* Properties of _normalize_quantity_and_name (specification SpecNormalize).

Returned == normalized # NoResult

\* the quantity text after trimming
Trimmed == Strip(OrEmpty(qty_text))

HasFractionWord(t) == Contains(Lower(t), W_half) \/ Contains(Lower(t), W_quarter)

\* the text is the article, alone or followed by whitespace
IsArticleText(t, art) ==
    /\ StartsWithAt(t, 1, art)
    /\ Len(t) = Len(art) \/ (Len(t) > Len(art) /\ IsSpace(t[Len(art) + 1]))

\* what follows the article and the whitespace after it
AfterArticle(t, art) == SubSeq(t, SkipSpace(t, Len(art) + 1), Len(t))

\* C3, as claimed: a quantity text that is 'a' or 'an', alone or followed by
\* whitespace and a noun phrase, without 'half' or 'quarter', comes back as '1'
\* followed by a space and that noun phrase (just '1' without one), the name
\* only trimmed; a text that merely begins with the letter 'a' comes back as it is.
C3_ArticleBecomesOne ==
    (Returned /\ ~HasFractionWord(Trimmed)) =>
        /\ \A art \in {W_a, W_an} :
              IsArticleText(Trimmed, art) =>
                 /\ normalized.quantity =
                       IF AfterArticle(Trimmed, art) = << >> THEN W_one
                       ELSE W_one \o SP \o AfterArticle(Trimmed, art)
                 /\ normalized.name = Strip(name)
        /\ (~IsArticleText(Trimmed, W_a) /\ ~IsArticleText(Trimmed, W_an))
              => normalized.quantity = Trimmed

\* the word the pattern of line 68 captures in the text the fraction rule sees
Referred == ReSearchFraction(Lower(ArticleRule(Trimmed)))

FractionOf(t) == IF Contains(Lower(t), W_half) THEN Frac_half ELSE Frac_quarter

\* C4, as claimed: when a word is captured after the fraction word, the name
\* becomes that word and the quantity the bare fraction if the word is a
\* substring of the lower-cased name, otherwise the name stays; 'half an
\* avocado' with the name 'avocado' gives 'avocado' and '1/2'.
C4_RenameOnSubstring ==
    /\ (Returned /\ HasFractionWord(Trimmed) /\ Referred.matched) =>
          IF Contains(Lower(name), Referred.group)
          THEN /\ normalized.name = Referred.group
               /\ normalized.quantity = FractionOf(Trimmed)
          ELSE normalized.name = Strip(name)
    /\ (Returned /\ name = W_avocado /\ qty_text = T_half_an_avocado) =>
          /\ normalized.name = W_avocado
          /\ normalized.quantity = Frac_half

\* C4, amended: the name becomes the captured word, and the quantity the bare
\* fraction, only if the lower-cased name contains 'toast' and the captured
\* word; otherwise the name is only trimmed and the quantity is the fraction, a
\* space and the captured word; 'half an avocado' with the name 'avocado'
\* gives 'avocado' and '1/2 avocado'.
C4_RenameOnlyForToast ==
    /\ (Returned /\ HasFractionWord(Trimmed) /\ Referred.matched) =>
          IF Contains(Lower(name), W_toast) /\ Contains(Lower(name), Referred.group)
          THEN /\ normalized.name = Referred.group
               /\ normalized.quantity = FractionOf(Trimmed)
          ELSE /\ normalized.name = Strip(name)
               /\ normalized.quantity = FractionOf(Trimmed) \o SP \o Referred.group
    /\ (Returned /\ name = W_avocado /\ qty_text = T_half_an_avocado) =>
          /\ normalized.name = W_avocado
          /\ normalized.quantity = Frac_half \o SP \o W_avocado

\* the name is replaced: 'half slice' with the name 'Slice of Toast '
C4_Witness ==
    /\ Returned
    /\ name = N_Slice_of_Toast
    /\ qty_text = W_half \o SP \o W_slice
    /\ normalized = [name |-> W_slice, quantity |-> Frac_half]

\* C5, as claimed: 'half a slice of toast' with the name 'toast' gives the
\* name 'slice' and the quantity '1/2'.
C5_ToastBecomesSlice ==
    (Returned /\ name = W_toast /\ qty_text = T_half_a_slice_of_toast) =>
        normalized = [name |-> W_slice, quantity |-> Frac_half]

\* C5, amended: 'half a slice of toast' with the name 'toast' gives the name
\* 'toast' and the quantity '1/2 slice'.
C5_ToastKeepsName ==
    (Returned /\ name = W_toast /\ qty_text = T_half_a_slice_of_toast) =>
        normalized = [name |-> W_toast, quantity |-> Frac_half \o SP \o W_slice]

C5_Witness ==
    /\ Returned
    /\ name = W_toast
    /\ qty_text = T_half_a_slice_of_toast
    /\ normalized.name = W_toast

\* C6, as claimed: a text containing 'half' comes back beginning with '1/2' and
\* a text containing 'quarter' beginning with '1/4'.
C6_FractionPrefix ==
    Returned =>
        /\ Contains(Lower(Trimmed), W_half)
              => StartsWithAt(normalized.quantity, 1, Frac_half)
        /\ Contains(Lower(Trimmed), W_quarter)
              => StartsWithAt(normalized.quantity, 1, Frac_quarter)

\* C6, amended: a text containing 'half' (in any case) comes back beginning
\* with '1/2'; a text containing 'quarter' and not 'half' comes back beginning
\* with '1/4'; also when the 'a'/'an' rule fired first.
C6_HalfBeforeQuarter ==
    Returned =>
        /\ Contains(Lower(Trimmed), W_half)
              => StartsWithAt(normalized.quantity, 1, Frac_half)
        /\ (Contains(Lower(Trimmed), W_quarter) /\ ~Contains(Lower(Trimmed), W_half))
              => StartsWithAt(normalized.quantity, 1, Frac_quarter)

\* 'a quarter': the 'a'/'an' rule fires, then the fraction rule
C6_Witness ==
    /\ Returned
    /\ qty_text = W_a \o SP \o W_quarter
    /\ normalized.quantity = Frac_quarter

\* the positions where a fraction word starts
FractionStarts(t) ==
    {i \in 1..Len(t) : StartsWithAt(t, i, W_half) \/ StartsWithAt(t, i, W_quarter)}

\* the complete word at position p: the whole run of word characters there
WordAt(t, p) == SubSeq(t, p, WordEnd(t, p))

\* the complete word that follows the fraction word, an article skipped;
\* << >> when no word follows
FollowingWord(t) ==
    LET i == Least(FractionStarts(t))
        k == IF StartsWithAt(t, i, W_half) THEN i + Len(W_half) ELSE i + Len(W_quarter)
        first == WordAt(t, SkipSpace(t, k))
        second == WordAt(t, SkipSpace(t, SkipSpace(t, k) + Len(first)))
    IN  IF first \in {W_a, W_an, W_the} THEN second ELSE first

\* C9, as claimed, for texts that hold one fraction word, followed by
\* whitespace or by nothing: when the name is not replaced, the quantity is
\* the fraction, a space and the complete word that follows the fraction word,
\* an article skipped, and the bare fraction when no word follows.
C9_CompleteWordFollows ==
    LET t == Lower(ArticleRule(Trimmed))
        i == Least(FractionStarts(t))
        k == IF StartsWithAt(t, i, W_half) THEN i + Len(W_half) ELSE i + Len(W_quarter)
    IN  (/\ Returned
         /\ Cardinality(FractionStarts(t)) = 1
         /\ k = Len(t) + 1 \/ IsSpace(t[k])
         /\ normalized.name = Strip(name)
         /\ ~Contains(Lower(name), W_toast))
        => normalized.quantity =
              IF FollowingWord(t) = << >> THEN FractionOf(t)
              ELSE FractionOf(t) \o SP \o FollowingWord(t)

====
